---- MODULE Spec2Model ----
(***************************************************************************)
(* Model of the function-calling adapter and the run polling loop of       *)
(* src/Assistant: Function.run / run_catch_exceptions                      *)
(* (openai_function_helper.py) and AIAssistant.create_tool_outputs,        *)
(* get_required_functions_names, extract_run_message, format_message and   *)
(* create_response (openai_assistant_helper.py).                           *)
(*                                                                         *)
(* Python strings are sequences of string tokens (concatenation is \o), so *)
(* that prefixes and contents of formatted messages can be examined.       *)
(* Python values that may be None are records tagged by the field t.       *)
(* verbose printing and time.sleep change no state and are left out.       *)
(***************************************************************************)
EXTENDS Integers, Sequences, FiniteSets, TLC

(***************************** bounds **************************************)
\* tool calls in one required_action payload
MaxCalls == 2
\* times the remote run may ask for tool outputs
MaxCycles == 2
\* the count of runs.retrieve calls saturates here
MaxPolls == 1

(************************* Python values ***********************************)
PyNone == [t |-> "None"]

\* a dict: keys, and the value stored under each key
PyDict(ks, val) == [t |-> "dict", keys |-> ks, value |-> val]

PyList(n) == [t |-> "list", len |-> n]

\* truth value of a Python object (None, "", {} and [] are false)
Truthy(v) ==
    CASE v.t = "None" -> FALSE
      [] v.t = "dict" -> v.keys # {}
      [] v.t = "list" -> v.len > 0
      [] v.t = "str"  -> v.text # ""
      [] OTHER        -> TRUE

\* sep.join(parts) for a sequence of names
RECURSIVE Join(_, _)
Join(sep, parts) ==
    IF parts = <<>> THEN <<>>
    ELSE IF Len(parts) = 1 THEN <<parts[1]>>
    ELSE <<parts[1], sep>> \o Join(sep, Tail(parts))

(********************** openai_function_helper.py **************************)
Property(n, r, d) ==
    [name |-> n, type |-> "string", required |-> r, description |-> d]

\* Function.parameters: None or a list of Property
NoParameters == [t |-> "None"]
Parameters(ps) == [t |-> "list", len |-> Len(ps), items |-> ps]

Exception(ty, m) == [type |-> ty, msg |-> m]

FunctionCall(id, n, a) == [call_id |-> id, name |-> n, arguments |-> a]

\* GetDBSchema and RunSQLQuery as registered by run_query.py
GetDBSchema ==
    [name |-> "get_db_schema",
     description |-> "Get the schema of the database",
     parameters |-> Parameters(<<Property("sql_path", TRUE,
                                          "The path to the SQLite database")>>)]

RunSQLQuery ==
    [name |-> "run_sql_query",
     description |-> "Run a SQL query on the database",
     parameters |-> Parameters(<<Property("query", TRUE, "The SQL query to run"),
                                 Property("database", TRUE,
                                          "The database to run the query on")>>)]

\* further Function subclasses a caller may register: one without
\* parameters, and one with an optional parameter under a name already taken
ListTables ==
    [name |-> "list_tables", description |-> "List the tables",
     parameters |-> NoParameters]

ListTablesEmpty ==
    [name |-> "list_tables", description |-> "List the tables",
     parameters |-> Parameters(<<>>)]

RunSQLQueryOpt ==
    [name |-> "run_sql_query",
     description |-> "Run a SQL query on the default database",
     parameters |-> Parameters(<<Property("query", TRUE, "The SQL query to run"),
                                 Property("database", FALSE,
                                          "The database to run the query on")>>)]

\* the parameters object of to_dict for a list of Property
ParametersObject(ps, req) ==
    [type |-> "object",
     properties |->
        [n \in {ps[k].name : k \in 1..Len(ps)} |->
            LET last == CHOOSE k \in 1..Len(ps) :
                           /\ ps[k].name = n
                           /\ \A j \in 1..Len(ps) : ps[j].name = n => j <= k
            IN [type |-> ps[last].type, description |-> ps[last].description]],
     required |-> req]

\* (variant: every declared parameter is listed as required)
to_dict_all_required(self) ==
    IF self.parameters.t = "None"
    THEN [name |-> self.name, description |-> self.description,
          parameters |-> ParametersObject(<<>>, <<>>)]
    ELSE [name |-> self.name, description |-> self.description,
          parameters |->
             ParametersObject(self.parameters.items,
                [k \in 1..Len(self.parameters.items) |->
                    self.parameters.items[k].name])]

\* Function.to_dict
to_dict(self) ==
    IF self.parameters.t = "None"
    THEN [name |-> self.name, description |-> self.description,
          parameters |-> ParametersObject(<<>>, <<>>)]
    ELSE [name |-> self.name, description |-> self.description,
          parameters |->
             LET required == SelectSeq(self.parameters.items, LAMBDA p : p.required)
             IN ParametersObject(self.parameters.items,
                   [k \in 1..Len(required) |-> required[k].name])]

\* what the abstract func may do once it is entered
FuncBehaviours ==
    { [raised |-> FALSE, value |-> <<"rows">>],
      [raised |-> TRUE,
       exc |-> Exception("OperationalError", <<"unable to open database file">>)] }

\* (variant: every declared parameter counts as required)
missing_parameters_all_required(self, function_call) ==
    LET Absent(p) == p.name \notin function_call.arguments.keys
        absent == SelectSeq(self.parameters.items, Absent)
    IN [k \in 1..Len(absent) |-> absent[k].name]

\* names of the required parameters that function_call.arguments lacks
missing_parameters(self, function_call) ==
    LET Absent(p) == p.required /\ p.name \notin function_call.arguments.keys
        absent == SelectSeq(self.parameters.items, Absent)
    IN [k \in 1..Len(absent) |-> absent[k].name]

\* (variant: empty arguments are not told apart, the missing names are listed)
Function_run_names_when_empty(self, function_call, behaviour) ==
    LET args == IF Truthy(function_call.arguments) THEN function_call.arguments
                ELSE PyDict({}, 1)
        call == [function_call EXCEPT !.arguments = args]
        Raise(e) == [raised |-> TRUE, exc |-> e, invoked |-> FALSE, kwargs |-> PyNone]
    IN
    IF Truthy(args) /\ ~Truthy(self.parameters)
    THEN Raise(Exception("UnexpectedParametersException", <<"Unexpected parameters">>))
    ELSE IF Truthy(self.parameters) /\ missing_parameters(self, call) # <<>>
    THEN Raise(Exception("MissingParametersException",
                 <<"Missing parameter(s): ">>
                 \o Join(", ", missing_parameters(self, call))))
    ELSE IF behaviour.raised
    THEN [raised |-> TRUE, exc |-> behaviour.exc, invoked |-> TRUE, kwargs |-> args]
    ELSE [raised |-> FALSE, value |-> behaviour.value, invoked |-> TRUE, kwargs |-> args]

\* (variant: arguments are accepted by a function that declares no parameter)
Function_run_accepts_unexpected(self, function_call, behaviour) ==
    LET args == function_call.arguments
        Raise(e) == [raised |-> TRUE, exc |-> e, invoked |-> FALSE, kwargs |-> PyNone]
    IN
    IF ~Truthy(args) /\ Truthy(self.parameters)
    THEN Raise(Exception("MissingParametersException", <<"Missing parameters">>))
    ELSE IF Truthy(self.parameters) /\ missing_parameters(self, function_call) # <<>>
    THEN Raise(Exception("MissingParametersException",
                 <<"Missing parameter(s): ">>
                 \o Join(", ", missing_parameters(self, function_call))))
    ELSE IF args.t # "dict"
    THEN Raise(Exception("TypeError", <<"argument after ** must be a mapping">>))
    ELSE IF behaviour.raised
    THEN [raised |-> TRUE, exc |-> behaviour.exc, invoked |-> TRUE, kwargs |-> args]
    ELSE [raised |-> FALSE, value |-> behaviour.value, invoked |-> TRUE, kwargs |-> args]

\* Function.run: the exception raised, or the callable entered with kwargs
Function_run(self, function_call, behaviour) ==
    LET args == function_call.arguments
        Raise(e) == [raised |-> TRUE, exc |-> e, invoked |-> FALSE, kwargs |-> PyNone]
    IN
    IF ~Truthy(args) /\ Truthy(self.parameters)
    THEN Raise(Exception("MissingParametersException", <<"Missing parameters">>))
    ELSE IF Truthy(args) /\ ~Truthy(self.parameters)
    THEN Raise(Exception("UnexpectedParametersException", <<"Unexpected parameters">>))
    ELSE IF Truthy(self.parameters) /\ missing_parameters(self, function_call) # <<>>
    THEN Raise(Exception("MissingParametersException",
                 <<"Missing parameter(s): ">>
                 \o Join(", ", missing_parameters(self, function_call))))
    ELSE IF args.t # "dict"
    THEN Raise(Exception("TypeError", <<"argument after ** must be a mapping">>))
    ELSE IF behaviour.raised
    THEN [raised |-> TRUE, exc |-> behaviour.exc, invoked |-> TRUE, kwargs |-> args]
    ELSE [raised |-> FALSE, value |-> behaviour.value, invoked |-> TRUE, kwargs |-> args]

\* traceback.format_exc(): ends with the exception's type and message
format_exc(e) == <<"Traceback (most recent call last):", e.type, ": ">> \o e.msg

\* Function.run_catch_exceptions: every exception becomes a string
run_catch_exceptions(self, function_call, behaviour) ==
    LET r == Function_run(self, function_call, behaviour)
    IN [response |-> IF r.raised THEN r.exc.msg \o <<"\n">> \o format_exc(r.exc)
                     ELSE r.value,
        invoked |-> r.invoked,
        kwargs |-> r.kwargs]

(********************** openai_assistant_helper.py *************************)
\* tool.function.arguments as sent by the remote: the JSON text, with the
\* document it holds (members: the keys of a JSON object, in text order)
Wire(txt, d, ms) == [t |-> "str", text |-> txt, doc |-> d, members |-> ms]

EmptyText == Wire("", "empty", <<>>)
EmptyObject == Wire("{}", "object", <<>>)
Malformed == Wire("{\"sql_path\": 1", "malformed", <<>>)
Array == Wire("[1]", "array", <<>>)
Object(txt, ms) == Wire(txt, "object", ms)
OnlySqlPath == Object("{\"sql_path\": 1}", <<"sql_path">>)
OnlyQuery == Object("{\"query\": 1}", <<"query">>)
OnlyDatabase == Object("{\"database\": 1}", <<"database">>)
QueryDatabase == Object("{\"query\": 1, \"database\": 1}", <<"query", "database">>)
AllKeys == Object("{\"sql_path\": 1, \"query\": 1, \"database\": 1}",
                  <<"sql_path", "query", "database">>)

\* json.loads: the parsed value, or the JSONDecodeError it raises
json_loads(s) ==
    CASE s.doc = "object" ->
           [raised |-> FALSE,
            value |-> PyDict({s.members[k] : k \in 1..Len(s.members)}, 1)]
      [] s.doc = "array"  -> [raised |-> FALSE, value |-> PyList(1)]
      [] s.doc = "null"   -> [raised |-> FALSE, value |-> PyNone]
      [] OTHER            ->
           [raised |-> TRUE,
            exc |-> Exception("JSONDecodeError", <<"Expecting ',' delimiter">>)]

\* the function objects of the tool calls the remote may send: each name
\* (known to some registries and unknown to others) with argument texts
\* that are empty, malformed, not an object, short of keys, or with extra keys
ToolFunctions ==
    [name : {"get_db_schema"},
     arguments : {EmptyText, EmptyObject, Malformed, OnlySqlPath, OnlyQuery}]
    \cup [name : {"run_sql_query"},
          arguments : {EmptyText, OnlyQuery, OnlyDatabase, OnlySqlPath,
                       QueryDatabase, AllKeys}]
    \cup [name : {"list_tables"},
          arguments : {EmptyText, OnlyQuery, Array}]

\* a required_action payload: the remote numbers its pending calls
ToolCalls(fs) == [k \in 1..Len(fs) |-> [id |-> k, function |-> fs[k]]]

Batches ==
    UNION { {ToolCalls(fs) : fs \in [1..n -> ToolFunctions]} : n \in 1..MaxCalls }

NoRequiredAction == [t |-> "None"]
RequiredAction(tcs) == [t |-> "RequiredAction", tool_calls |-> tcs]

NoLastError == [t |-> "None"]
LastErrors ==
    { [t |-> "LastError", code |-> "server_error", message |-> "Sorry, something went wrong."],
      [t |-> "LastError", code |-> "rate_limit_exceeded", message |-> "Rate limit reached"] }

\* the registries an AIAssistant is constructed with in this model
Registries ==
    { <<GetDBSchema, RunSQLQuery>>,
      <<ListTables, RunSQLQueryOpt>>,
      <<RunSQLQuery, RunSQLQueryOpt>>,
      <<GetDBSchema, ListTablesEmpty>> }

\* sep.join(parts) where every part is itself a string of tokens
RECURSIVE JoinAll(_, _)
JoinAll(sep, parts) ==
    IF parts = <<>> THEN <<>>
    ELSE IF Len(parts) = 1 THEN parts[1]
    ELSE parts[1] \o <<sep>> \o JoinAll(sep, Tail(parts))

\* str(index) for the indices that occur
IndexStr(k) == <<"0", "1", "2", "3">>[k + 1]

\* whether old occurs in s at position k
OccursAt(s, old, k) ==
    /\ k + Len(old) - 1 <= Len(s)
    /\ \A j \in 1..Len(old) : s[k + j - 1] = old[j]

\* str.replace(old, new): every occurrence, left to right, without overlap
RECURSIVE Replace(_, _, _)
Replace(s, old, new) ==
    IF s = <<>> \/ old = <<>> THEN s
    ELSE IF OccursAt(s, old, 1)
    THEN new \o Replace(SubSeq(s, Len(old) + 1, Len(s)), old, new)
    ELSE <<s[1]>> \o Replace(Tail(s), old, new)

\* client.files.retrieve(file_id).filename
Filename(file_id) == IF file_id = "file_1" THEN "doc.txt" ELSE "out.csv"

\* an annotation of a text content: start_index and end_index delimit its span
FileCitation(txt, quote, fid, start) ==
    [text |-> txt, kind |-> "file_citation", quote |-> quote, file_id |-> fid,
     start_index |-> start, end_index |-> start + Len(txt)]
FilePath(txt, fid, start) ==
    [text |-> txt, kind |-> "file_path", quote |-> <<>>, file_id |-> fid,
     start_index |-> start, end_index |-> start + Len(txt)]

TextContent(v, anns) == [type |-> "text", value |-> v, annotations |-> anns]
ImageContent == [type |-> "image_file", value |-> <<>>, annotations |-> <<>>]

ThreadMessage(rid, r, c) == [run_id |-> rid, role |-> r, content |-> c]

\* the run created by create_response, and an earlier run of the thread
RunId == "run_1"
OtherRunId == "run_0"

\* what messages.list(thread_id).data may hold once the run is completed
MessageLists ==
    LET answer == ThreadMessage(RunId, "assistant",
                    TextContent(<<"There are ", "3", " tables.">>, <<>>))
        cited == ThreadMessage(RunId, "assistant",
                    TextContent(<<"A claim", ".">>,
                        <<FileCitation(<<"A claim">>, <<"source text">>, "file_1", 0)>>))
        claimed == ThreadMessage(RunId, "assistant",
                    TextContent(<<"A claim", ".">>,
                        <<FileCitation(<<"A claim", ".">>, <<"source text">>,
                                       "file_1", 0)>>))
        repeated == ThreadMessage(RunId, "assistant",
                    TextContent(<<"The marker ", "[src]", " follows a fact", "[src]">>,
                        <<FileCitation(<<"[src]">>, <<"source text">>, "file_1", 3)>>))
        export == ThreadMessage(RunId, "assistant",
                    TextContent(<<"See ", "sandbox:/out.csv", " and ", "A claim">>,
                        <<FilePath(<<"sandbox:/out.csv">>, "file_2", 1),
                          FileCitation(<<"A claim">>, <<"source text">>, "file_1", 3)>>))
        plot == ThreadMessage(RunId, "assistant", ImageContent)
        user == ThreadMessage("None", "user", TextContent(<<"How many tables?">>, <<>>))
        older == ThreadMessage(OtherRunId, "assistant", TextContent(<<"Hello">>, <<>>))
    IN { <<answer, user>>, <<cited, user, older>>, <<older, export, answer, user>>,
         <<user, older>>, <<plot, user>>, <<user>>, <<claimed, user>>,
         <<repeated, user>> }

\* the text in which the span of each annotation, and nothing else, gives way
\* to the bracketed index of the annotation
SpanReplaced(text, anns) ==
    LET Piece(p) ==
            IF \E k \in 1..Len(anns) : anns[k].start_index + 1 = p
            THEN LET k == CHOOSE j \in 1..Len(anns) : anns[j].start_index + 1 = p
                 IN <<" [" \o IndexStr(k - 1) \o "]">>
            ELSE IF \E k \in 1..Len(anns) :
                       anns[k].start_index + 1 < p /\ p <= anns[k].end_index
                 THEN <<>>
                 ELSE <<text[p]>>
        flat[p \in 0..Len(text)] == IF p = 0 THEN <<>> ELSE flat[p - 1] \o Piece(p)
    IN flat[Len(text)]

\* (variant: only the span of an annotation is replaced)
format_message_span(message) ==
    LET anns == message.content.annotations
        Citation(k) ==
            IF anns[k].kind = "file_citation"
            THEN <<"[" \o IndexStr(k - 1) \o "]", " ">> \o anns[k].quote
                 \o <<" from ", Filename(anns[k].file_id)>>
            ELSE <<"[" \o IndexStr(k - 1) \o "]", " file: ",
                   Filename(anns[k].file_id), " is downloaded">>
        citations == [k \in 1..Len(anns) |-> Citation(k)]
    IN IF message.content.type # "text"
       THEN [raised |-> TRUE,
             exc |-> Exception("AttributeError", <<"annotations">>),
             value |-> <<>>, written |-> {}]
       ELSE [raised |-> FALSE,
             exc |-> Exception("none", <<>>),
             value |-> SpanReplaced(message.content.value, anns)
                       \o <<"\n">> \o JoinAll("\n", citations),
             written |-> {Filename(anns[k].file_id) :
                            k \in {j \in 1..Len(anns) : anns[j].kind = "file_path"}}]

\* AIAssistant.format_message: the formatted text and the files it wrote,
\* or the AttributeError of a content object that has no annotations
format_message(message) ==
    LET anns == message.content.annotations
        Marker(k) == <<" [" \o IndexStr(k - 1) \o "]">>
        value[k \in 0..Len(anns)] ==
            IF k = 0 THEN message.content.value
            ELSE Replace(value[k - 1], anns[k].text, Marker(k))
        Citation(k) ==
            IF anns[k].kind = "file_citation"
            THEN <<"[" \o IndexStr(k - 1) \o "]", " ">> \o anns[k].quote
                 \o <<" from ", Filename(anns[k].file_id)>>
            ELSE <<"[" \o IndexStr(k - 1) \o "]", " file: ",
                   Filename(anns[k].file_id), " is downloaded">>
        citations == [k \in 1..Len(anns) |-> Citation(k)]
    IN IF message.content.type # "text"
       THEN [raised |-> TRUE,
             exc |-> Exception("AttributeError", <<"annotations">>),
             value |-> <<>>, written |-> {}]
       ELSE [raised |-> FALSE,
             exc |-> Exception("none", <<>>),
             value |-> value[Len(anns)] \o <<"\n">> \o JoinAll("\n", citations),
             written |-> {Filename(anns[k].file_id) :
                            k \in {j \in 1..Len(anns) : anns[j].kind = "file_path"}}]

\* AIAssistant.extract_run_message: the first message of the run, formatted
extract_run_message(messages, run_id) ==
    LET hits == SelectSeq(messages, LAMBDA m : m.run_id = run_id)
    IN IF hits = <<>>
       THEN [raised |-> FALSE, exc |-> Exception("none", <<>>),
             value |-> <<"Assistant: No message found">>, written |-> {}]
       ELSE LET f == format_message(hits[1])
            IN [f EXCEPT !.value = IF f.raised THEN <<>>
                                   ELSE <<hits[1].role, ": ">> \o f.value]

\* repr() of a tool call's function object and of a list of them
ReprFunction(fn) ==
    <<"Function(arguments='", fn.arguments.text, "', name='", fn.name, "')">>

ReprList(items) ==
    <<"[">> \o JoinAll(", ", [k \in 1..Len(items) |-> ReprFunction(items[k])]) \o <<"]">>

StrLastError(e) ==
    IF e.t = "None" THEN <<"None">>
    ELSE <<"LastError(code='", e.code, "', message='", e.message, "')">>

\* AIAssistant.get_required_functions_names: the function objects of the
\* pending calls, or the AttributeError of a run without required_action
get_required_functions_names(r) ==
    IF r.required_action.t = "None"
    THEN [raised |-> TRUE,
          exc |-> Exception("AttributeError",
                     <<"'NoneType' object has no attribute 'submit_tool_outputs'">>),
          value |-> <<>>]
    ELSE [raised |-> FALSE, exc |-> Exception("none", <<>>),
          value |-> [k \in 1..Len(r.required_action.tool_calls) |->
                        r.required_action.tool_calls[k].function]]

\* AIAssistant.create_tool_outputs, the body of its loop for one tool call:
\* the outputs appended for it, or the exception that leaves the loop.
\* dispatches records, for every output appended, the registered function
\* that produced it (0: none), the arguments and whether func was entered.
tool_call_outputs(fns, tool, behaviours) ==
    LET function_name == tool.function.name
        parsed == IF Truthy(tool.function.arguments)
                  THEN json_loads(tool.function.arguments)
                  ELSE [raised |-> FALSE, value |-> PyDict({}, 1)]
        Leave(e, where) ==
            [raised |-> TRUE, exc |-> e, origin |-> where,
             outputs |-> <<>>, dispatches |-> <<>>]
    IN
    IF parsed.raised THEN Leave(parsed.exc, "json.loads")
    ELSE IF parsed.value.t \notin {"dict", "None"}
    THEN Leave(Exception("ValidationError", <<"arguments: value is not a valid dict">>),
               "FunctionCall")
    ELSE
    LET function_call == FunctionCall(tool.id, function_name, parsed.value)
        found == {k \in 1..Len(fns) : fns[k].name = function_name}
        Response(k) == run_catch_exceptions(fns[k], function_call, behaviours[k])
        outs[k \in 0..Len(fns)] ==
            IF k = 0 THEN <<>>
            ELSE outs[k - 1] \o
                 (IF k \in found
                  THEN <<[tool_call_id |-> tool.id, output |-> Response(k).response]>>
                  ELSE <<>>)
        disp[k \in 0..Len(fns)] ==
            IF k = 0 THEN <<>>
            ELSE disp[k - 1] \o
                 (IF k \in found
                  THEN <<[function |-> k, call |-> function_call,
                          invoked |-> Response(k).invoked,
                          kwargs |-> Response(k).kwargs]>>
                  ELSE <<>>)
    IN
    IF found # {}
    THEN [raised |-> FALSE, exc |-> Exception("none", <<>>), origin |-> "none",
          outputs |-> outs[Len(fns)], dispatches |-> disp[Len(fns)]]
    ELSE [raised |-> FALSE, exc |-> Exception("none", <<>>), origin |-> "none",
          outputs |-> <<[tool_call_id |-> tool.id,
                         output |-> <<"Function ", function_name, " not found">>]>>,
          dispatches |-> <<[function |-> 0, call |-> function_call,
                            invoked |-> FALSE, kwargs |-> PyNone]>>]

(******************************* state *************************************)
VARIABLES
    functions,     \* self.functions
    tools,         \* the tools the assistant was created with
    auto_delete,   \* self.auto_delete
    threads,       \* self.threads
    deleted,       \* remote objects deleted by chat
    extracted,     \* extract_run_message: the message it formatted, if any
    pc,            \* where chat and create_response stand
    run,           \* the local variable run of create_response
    i,             \* create_tool_outputs: index of the next tool call
    tool_outputs,  \* create_tool_outputs: the list being built
    dispatches,    \* what produced each entry of tool_outputs
    error,         \* the exception create_response raised
    result,        \* the value create_response returned
    written,       \* files written by create_file
    calls,         \* calls create_response has made to each remote operation
    fetched_requires_action, \* retrieved runs whose status was requires_action
    rstatus,       \* remote: the status of the run
    rcycles,       \* remote: times the run entered requires_action
    routputs       \* remote: the tool outputs received and not yet consumed

assistant == <<functions, tools, auto_delete>>

session == <<threads, deleted>>

vars == <<assistant, session, extracted, pc, run, i, tool_outputs, dispatches, error,
          result, written, calls, fetched_requires_action, rstatus, rcycles, routputs>>

client == <<assistant, session, extracted, pc, run, i, tool_outputs, dispatches, error,
            result, written, calls, fetched_requires_action>>

FinalStatuses == {"completed", "failed", "expired", "cancelled"}

Run(st, ra, le) ==
    [id |-> RunId, status |-> st, required_action |-> ra, last_error |-> le]

NoRun == [id |-> "None", status |-> "None", required_action |-> NoRequiredAction,
          last_error |-> NoLastError]

NoError == [exc |-> Exception("none", <<>>), origin |-> "none"]

Raised(e, where) == [exc |-> e, origin |-> where]

\* the arguments run_query.py and the defaults give to AIAssistant
use_retrieval == FALSE
use_code_interpreter == TRUE

\* AIAssistant.__init__: the tools passed to assistants.create
Tools(fs) ==
    [k \in 1..Len(fs) |-> [type |-> "function", function |-> to_dict(fs[k])]]
    \o (IF use_retrieval THEN <<[type |-> "retrieval"]>> ELSE <<>>)
    \o (IF use_code_interpreter THEN <<[type |-> "code_interpreter"]>> ELSE <<>>)

\* the assistants constructed: the default auto_delete, except for one
\* registry whose assistant keeps its remote objects
Configurations ==
    {[functions |-> fs, auto_delete |-> fs # <<GetDBSchema, ListTablesEmpty>>] :
        fs \in Registries}

\* the identifiers the remote gives to the assistant and to the thread of chat
AssistantId == "asst_1"
ThreadId == "thread_1"

\* what input() may return
UserInputs == {"How many tables?", "bye", "exit"}

NoCalls == [messages_create |-> 0, runs_create |-> 0, runs_retrieve |-> 0,
            submit_tool_outputs |-> 0, messages_list |-> 0]

Init ==
    /\ \E c \in Configurations :
         /\ functions = c.functions
         /\ auto_delete = c.auto_delete
    /\ tools = Tools(functions)
    /\ threads = <<>>
    /\ deleted = {}
    /\ extracted = <<>>
    /\ pc = "create_thread"
    /\ run = NoRun
    /\ i = 1
    /\ tool_outputs = <<>>
    /\ dispatches = <<>>
    /\ error = NoError
    /\ result = <<>>
    /\ written = {}
    /\ calls = NoCalls
    /\ fetched_requires_action = 0
    /\ rstatus = "None"
    /\ rcycles = 0
    /\ routputs = <<>>

\* the test of the while loop: leave it on completed
WhileTarget(r) == IF r.status # "completed" THEN "retrieve" ELSE "extract"

(******************************** chat *************************************)
\* the locals of create_response and the run it polls, before a call of it
\* and after the call has returned
FreshCreateResponse ==
    /\ run' = NoRun
    /\ result' = <<>>
    /\ extracted' = <<>>
    /\ calls' = NoCalls
    /\ fetched_requires_action' = 0
    /\ rstatus' = "None"
    /\ rcycles' = 0
    /\ routputs' = <<>>

\* chat: create_thread, then the first pass of the loop up to create_response.
\* The text read by input() goes to the remote only, whose answers are left
\* open here, so the text is drawn where the loop tests it.
CreateThread ==
    /\ pc = "create_thread"
    /\ threads' = Append(threads, ThreadId)
    /\ pc' = "create_message"
    /\ FreshCreateResponse
    /\ UNCHANGED <<assistant, deleted, i, tool_outputs, dispatches, error, written>>

\* chat: print the message and test the loop on the text the call was made
\* with: another pass up to create_response, or the end of the loop
ChatLoop ==
    /\ pc = "returned"
    /\ \E user_input \in UserInputs :
         pc' = IF user_input # "bye" /\ user_input # "exit"
               THEN "create_message" ELSE "auto_delete"
    /\ FreshCreateResponse
    /\ UNCHANGED <<assistant, threads, deleted, i, tool_outputs, dispatches, error,
                   written>>

\* chat: the deletions after the loop (chat is called without file_ids)
AutoDelete ==
    /\ pc = "auto_delete"
    /\ deleted' = IF auto_delete
                  THEN deleted \cup {threads[Len(threads)], AssistantId}
                  ELSE deleted
    /\ pc' = "done"
    /\ UNCHANGED <<assistant, threads, extracted, run, i, tool_outputs,
                   dispatches, error, result, written, calls,
                   fetched_requires_action, rstatus, rcycles, routputs>>

(************************** create_response ********************************)
\* client.beta.threads.messages.create
CreateMessage ==
    /\ pc = "create_message"
    /\ calls' = [calls EXCEPT !.messages_create = @ + 1]
    /\ pc' = "create_run"
    /\ UNCHANGED <<assistant, session, extracted, run, i, tool_outputs, dispatches, error, result, written,
                   fetched_requires_action, rstatus, rcycles, routputs>>

\* client.beta.threads.runs.create, then the first test of the loop
CreateRun ==
    /\ pc = "create_run"
    /\ \E st \in {"queued", "in_progress"} :
         /\ rstatus' = st
         /\ run' = Run(st, NoRequiredAction, NoLastError)
    /\ calls' = [calls EXCEPT !.runs_create = @ + 1]
    /\ pc' = WhileTarget(run')
    /\ UNCHANGED <<assistant, session, extracted, i, tool_outputs, dispatches, error, result, written,
                   fetched_requires_action, rcycles, routputs>>

\* the runs the remote may report for its current status
Retrievable ==
    CASE rstatus = "requires_action" ->
           {Run(rstatus, RequiredAction(b), NoLastError) : b \in Batches}
      [] rstatus = "expired" ->
           {Run(rstatus, NoRequiredAction, NoLastError)}
           \cup {Run(rstatus, RequiredAction(b), NoLastError) : b \in Batches}
      [] rstatus = "failed" ->
           {Run(rstatus, NoRequiredAction, le) : le \in LastErrors}
      [] OTHER -> {Run(rstatus, NoRequiredAction, NoLastError)}

\* (variant: a run that requires action is only waited for)
AfterRetrieve_no_action(r) ==
    LET names == get_required_functions_names(r)
    IN
    IF r.status = "failed"
    THEN [pc |-> "raised",
          error |-> Raised(Exception("RuntimeError",
                       <<"Run failed with the following error ">>
                       \o StrLastError(r.last_error)), "create_response")]
    ELSE IF r.status = "expired"
    THEN [pc |-> "raised",
          error |-> IF names.raised
                    THEN Raised(names.exc, "get_required_functions_names")
                    ELSE Raised(Exception("RuntimeError",
                            <<"Run expired when calling ">> \o ReprList(names.value)),
                            "create_response")]
    ELSE [pc |-> "sleep", error |-> NoError]

\* (variant: a failed run is polled again)
AfterRetrieve_failed_ignored(r) ==
    LET names == get_required_functions_names(r)
    IN
    IF r.status = "expired"
    THEN [pc |-> "raised",
          error |-> IF names.raised
                    THEN Raised(names.exc, "get_required_functions_names")
                    ELSE Raised(Exception("RuntimeError",
                            <<"Run expired when calling ">> \o ReprList(names.value)),
                            "create_response")]
    ELSE IF r.status = "requires_action"
    THEN [pc |-> "create_tool_outputs", error |-> NoError]
    ELSE [pc |-> "sleep", error |-> NoError]

\* (variant: a failed or expired run is started again)
AfterRetrieve_retry(r) ==
    IF r.status \in {"failed", "expired"}
    THEN [pc |-> "create_run", error |-> NoError]
    ELSE IF r.status = "requires_action"
    THEN [pc |-> "create_tool_outputs", error |-> NoError]
    ELSE [pc |-> "sleep", error |-> NoError]

\* the loop body up to the call of create_tool_outputs: the tests on the
\* status of the run that runs.retrieve returned
AfterRetrieve(r) ==
    LET names == get_required_functions_names(r)
    IN
    IF r.status = "failed"
    THEN [pc |-> "raised",
          error |-> Raised(Exception("RuntimeError",
                       <<"Run failed with the following error ">>
                       \o StrLastError(r.last_error)), "create_response")]
    ELSE IF r.status = "expired"
    THEN [pc |-> "raised",
          error |-> IF names.raised
                    THEN Raised(names.exc, "get_required_functions_names")
                    ELSE Raised(Exception("RuntimeError",
                            <<"Run expired when calling ">> \o ReprList(names.value)),
                            "create_response")]
    ELSE IF r.status = "requires_action"
    THEN [pc |-> "create_tool_outputs", error |-> NoError]
    ELSE [pc |-> "sleep", error |-> NoError]

Retrieve ==
    /\ pc = "retrieve"
    /\ \E r \in Retrievable :
         /\ run' = r
         /\ pc' = AfterRetrieve(r).pc
         /\ error' = AfterRetrieve(r).error
         /\ fetched_requires_action' =
               IF r.status = "requires_action"
               THEN fetched_requires_action + 1 ELSE fetched_requires_action
         /\ IF AfterRetrieve(r).pc = "create_tool_outputs"
            THEN /\ tool_outputs' = <<>>
                 /\ dispatches' = <<>>
                 /\ i' = 1
            ELSE UNCHANGED <<tool_outputs, dispatches, i>>
    /\ calls' = [calls EXCEPT !.runs_retrieve = IF @ < MaxPolls THEN @ + 1 ELSE @]
    /\ UNCHANGED <<assistant, session, extracted, result, written, rstatus, rcycles, routputs>>

\* one iteration of the loop of create_tool_outputs
DispatchToolCall ==
    /\ pc = "create_tool_outputs"
    /\ i <= Len(run.required_action.tool_calls)
    /\ \E behaviours \in [1..Len(functions) -> FuncBehaviours] :
         LET o == tool_call_outputs(functions, run.required_action.tool_calls[i],
                                    behaviours)
         IN IF o.raised
            THEN /\ pc' = "raised"
                 /\ error' = Raised(o.exc, o.origin)
                 /\ UNCHANGED <<tool_outputs, dispatches, i>>
            ELSE /\ tool_outputs' = tool_outputs \o o.outputs
                 /\ dispatches' = dispatches \o o.dispatches
                 /\ i' = i + 1
                 /\ pc' = IF i + 1 <= Len(run.required_action.tool_calls)
                          THEN "create_tool_outputs" ELSE "submit"
                 /\ UNCHANGED error
    /\ UNCHANGED <<assistant, session, extracted, run, result, written, calls, fetched_requires_action,
                   rstatus, rcycles, routputs>>

\* client.beta.threads.runs.submit_tool_outputs: the remote takes the batch
\* and answers with the run, queued again if it was waiting for the outputs.
\* The list is not read again after the call, and is dropped here.
SubmitToolOutputs ==
    /\ pc = "submit"
    /\ calls' = [calls EXCEPT !.submit_tool_outputs = @ + 1]
    /\ IF rstatus = "requires_action"
       THEN /\ rstatus' = "queued"
            /\ routputs' = tool_outputs
       ELSE UNCHANGED <<rstatus, routputs>>
    /\ run' = Run(rstatus', NoRequiredAction, NoLastError)
    /\ tool_outputs' = <<>>
    /\ dispatches' = <<>>
    /\ i' = 1
    /\ pc' = "sleep"
    /\ UNCHANGED <<assistant, session, extracted, error, result, written, fetched_requires_action, rcycles>>

\* time.sleep(0.5), then the test of the loop
Sleep ==
    /\ pc = "sleep"
    /\ pc' = WhileTarget(run)
    /\ UNCHANGED <<assistant, session, extracted, run, i, tool_outputs, dispatches, error, result, written,
                   calls, fetched_requires_action, rstatus, rcycles, routputs>>

\* the return statement: extract_run_message over messages.list
ExtractRunMessage ==
    /\ pc = "extract"
    /\ calls' = [calls EXCEPT !.messages_list = @ + 1]
    /\ \E messages \in MessageLists :
         LET m == extract_run_message(messages, run.id)
             hits == SelectSeq(messages, LAMBDA msg : msg.run_id = run.id)
         IN /\ extracted' = (IF hits = <<>> THEN <<>> ELSE <<hits[1]>>)
            /\ IF m.raised
               THEN /\ pc' = "raised"
                    /\ error' = Raised(m.exc, "format_message")
                    /\ UNCHANGED <<result, written>>
               ELSE /\ pc' = "returned"
                    /\ result' = <<"\n">> \o m.value
                    /\ written' = written \cup m.written
                    /\ UNCHANGED error
    /\ UNCHANGED <<assistant, session, run, i, tool_outputs, dispatches,
                   fetched_requires_action, rstatus, rcycles, routputs>>

(******************************* remote ************************************)
\* the statuses the remote run may move to by itself
RemoteNext ==
    CASE rstatus = "queued" -> {"in_progress", "failed", "expired", "cancelled"}
      [] rstatus = "in_progress" ->
           {"completed", "failed", "expired", "cancelled"}
           \cup (IF rcycles < MaxCycles THEN {"requires_action"} ELSE {})
      [] rstatus = "requires_action" -> {"expired", "cancelled"}
      [] OTHER -> {}

\* The client sees the remote only through its calls, so the remote's steps
\* are taken where the next thing the client does is a call that reads the status.
RemoteProgress ==
    /\ pc \in {"retrieve", "submit"}
    /\ \E st \in RemoteNext :
         /\ rstatus' = st
         /\ rcycles' = IF st = "requires_action" THEN rcycles + 1 ELSE rcycles
    /\ routputs' = <<>>
    /\ UNCHANGED client

Next ==
    \/ CreateThread
    \/ ChatLoop
    \/ AutoDelete
    \/ CreateMessage
    \/ CreateRun
    \/ Retrieve
    \/ DispatchToolCall
    \/ SubmitToolOutputs
    \/ Sleep
    \/ ExtractRunMessage
    \/ RemoteProgress

Spec == Init /\ [][Next]_vars

\* every remote call returns and the interpreter keeps running the loop
ClientStep ==
    \/ CreateThread
    \/ AutoDelete
    \/ CreateMessage
    \/ CreateRun
    \/ Retrieve
    \/ DispatchToolCall
    \/ SubmitToolOutputs
    \/ Sleep
    \/ ExtractRunMessage

FairSpec == Spec /\ WF_vars(ClientStep)

(***************************** properties **********************************)
\* the pending tool calls of the run held by create_response
PendingCalls ==
    IF run.required_action.t = "None" THEN <<>> ELSE run.required_action.tool_calls

\* the text of a string up to its first line break
FirstLine(str) ==
    LET breaks == {k \in 1..Len(str) : str[k] = "\n"}
    IN IF breaks = {} THEN str
       ELSE SubSeq(str, 1, (CHOOSE k \in breaks : \A j \in breaks : k <= j) - 1)

\* the output is what run_catch_exceptions makes of an exception of this type
IsFailureOutput(out, type) ==
    \E k \in 1..Len(out) :
        /\ out[k] = "\n"
        /\ k + 2 <= Len(out)
        /\ out[k + 1] = "Traceback (most recent call last):"
        /\ out[k + 2] = type

Occurs(token, str) == \E k \in 1..Len(str) : str[k] = token

Registered(name) == \E k \in 1..Len(functions) : functions[k].name = name

DispatchOrigins == {"json.loads", "FunctionCall", "run_catch_exceptions"}

\* the entries of tool_outputs recorded for a call id
OutputsFor(id) == SelectSeq(tool_outputs, LAMBDA o : o.tool_call_id = id)

\* C1: when create_tool_outputs returns, the batch has as many results as
\* the run has pending tool calls and every call id has exactly one result
\* (only the first registered function of that name ran for it).
C1_OneResultPerCall ==
    pc = "submit" =>
        /\ Len(tool_outputs) = Len(PendingCalls)
        /\ \A k \in 1..Len(PendingCalls) : Len(OutputsFor(PendingCalls[k].id)) = 1

\* C2: no error that arises while a pending call is dispatched (parsing its
\* arguments, validating them, running the callable) leaves
\* create_tool_outputs or create_response.
C2_DispatchErrorsContained ==
    pc = "raised" => error.origin \notin DispatchOrigins

\* a dispatch of a function that declares a required parameter, called with
\* empty or absent arguments
EmptyCallOfRequired(d) ==
    /\ d.function # 0
    /\ ~Truthy(d.call.arguments)
    /\ Truthy(functions[d.function].parameters)
    /\ \E k \in 1..functions[d.function].parameters.len :
          functions[d.function].parameters.items[k].required

RequiredNames(f) ==
    {f.parameters.items[k].name :
        k \in {j \in 1..f.parameters.len : f.parameters.items[j].required}}

\* C3 as stated: a call with empty or absent arguments to a function that
\* declares a required parameter x yields a MissingParameters output that
\* names x and starts with "Missing parameter(s): ".
C3_EmptyCallNamesMissing ==
    \A k \in 1..Len(dispatches) :
        EmptyCallOfRequired(dispatches[k]) =>
            /\ IsFailureOutput(tool_outputs[k].output, "MissingParametersException")
            /\ tool_outputs[k].output[1] = "Missing parameter(s): "
            /\ \A x \in RequiredNames(functions[dispatches[k].function]) :
                  Occurs(x, FirstLine(tool_outputs[k].output))

\* C3 amended: such a call does not raise and never enters the callable; its
\* output is a MissingParameters failure whose message is the fixed text
\* "Missing parameters", which names no parameter.
C3_EmptyCallGenericMissing ==
    /\ \A k \in 1..Len(dispatches) :
          EmptyCallOfRequired(dispatches[k]) =>
              /\ IsFailureOutput(tool_outputs[k].output, "MissingParametersException")
              /\ FirstLine(tool_outputs[k].output) = <<"Missing parameters">>
              /\ ~dispatches[k].invoked
    /\ (pc = "raised" /\ error.origin \in DispatchOrigins) =>
          Truthy(PendingCalls[i].function.arguments)
    /\ \A j \in 1..Len(PendingCalls) :
          (j < i /\ ~Truthy(PendingCalls[j].function.arguments)) =>
              OutputsFor(PendingCalls[j].id) # <<>>

C3_Witness ==
    /\ pc = "submit"
    /\ \E k \in 1..Len(dispatches) :
          /\ EmptyCallOfRequired(dispatches[k])
          /\ functions[dispatches[k].function] = GetDBSchema
          /\ dispatches[k].call.arguments = PyDict({}, 1)
          /\ tool_outputs[k].output[1] = "Missing parameters"

\* C4: a pending call that names no registered function gets exactly the
\* output "Function {name} not found", enters no callable, and does not end
\* the cycle or the run.
C4_UnknownFunctionNotFound ==
    /\ \A j \in 1..Len(PendingCalls) :
          (j < i /\ ~Registered(PendingCalls[j].function.name)) =>
              /\ OutputsFor(PendingCalls[j].id) =
                    <<[tool_call_id |-> PendingCalls[j].id,
                       output |-> <<"Function ", PendingCalls[j].function.name,
                                    " not found">>]>>
              /\ \A k \in 1..Len(dispatches) :
                    dispatches[k].call.call_id = PendingCalls[j].id =>
                        ~dispatches[k].invoked
    /\ (pc = "raised" /\ error.origin \in DispatchOrigins) =>
          Registered(PendingCalls[i].function.name)

\* a dispatch of a function that declares parameters, called with a
\* non-empty argument mapping
NonEmptyCallOfDeclared(d) ==
    /\ d.function # 0
    /\ Truthy(functions[d.function].parameters)
    /\ d.call.arguments.t = "dict"
    /\ d.call.arguments.keys # {}

\* the required parameters of f that the mapping lacks
AbsentRequired(f, arguments) == RequiredNames(f) \ arguments.keys

\* position of a parameter in the declaration of f
Declared(f, name) ==
    CHOOSE k \in 1..f.parameters.len : f.parameters.items[k].name = name

\* the line is "Missing parameter(s): " followed by exactly these names,
\* joined by ", ", in the order of their declaration in f
NamesExactly(line, names, f) ==
    /\ Len(line) = 2 * Cardinality(names)
    /\ line[1] = "Missing parameter(s): "
    /\ {line[2 * k] : k \in 1..Cardinality(names)} = names
    /\ \A k \in 2..Cardinality(names) :
          /\ line[2 * k - 1] = ", "
          /\ Declared(f, line[2 * k - 2]) < Declared(f, line[2 * k])

\* C5: with declared parameters and a non-empty mapping, run fails with
\* MissingParameters exactly when a required parameter is absent, naming
\* exactly the absent required ones in declaration order; extra keys never
\* fail validation; when validation passes func is entered with the whole
\* mapping as its named arguments.
C5_RequiredOnlyValidation ==
    \A k \in 1..Len(dispatches) :
        LET d == dispatches[k]
            f == functions[d.function]
            out == tool_outputs[k].output
        IN NonEmptyCallOfDeclared(d) =>
             /\ IsFailureOutput(out, "MissingParametersException")
                   <=> AbsentRequired(f, d.call.arguments) # {}
             /\ AbsentRequired(f, d.call.arguments) # {} =>
                   /\ NamesExactly(FirstLine(out), AbsentRequired(f, d.call.arguments), f)
                   /\ ~d.invoked
             /\ AbsentRequired(f, d.call.arguments) = {} =>
                   /\ d.invoked
                   /\ d.kwargs = d.call.arguments
                   /\ ~IsFailureOutput(out, "UnexpectedParametersException")

\* two required parameters are absent and an undeclared key is present in
\* one call; in another an optional parameter is absent and func is entered
C5_Witness ==
    /\ \E k \in 1..Len(dispatches) :
          /\ NonEmptyCallOfDeclared(dispatches[k])
          /\ functions[dispatches[k].function] = RunSQLQuery
          /\ dispatches[k].call.arguments.keys = {"sql_path"}
          /\ FirstLine(tool_outputs[k].output) =
                <<"Missing parameter(s): ", "query", ", ", "database">>
    /\ \E k \in 1..Len(dispatches) :
          /\ NonEmptyCallOfDeclared(dispatches[k])
          /\ functions[dispatches[k].function] = RunSQLQueryOpt
          /\ dispatches[k].call.arguments.keys = {"query"}
          /\ dispatches[k].invoked

\* C6: a function that declares no parameter (None or an empty list), called
\* with a non-empty mapping, never enters func: the output is an
\* UnexpectedParameters failure, as a string, and nothing is raised.
C6_UnexpectedParameters ==
    /\ \A k \in 1..Len(dispatches) :
          LET d == dispatches[k]
          IN (/\ d.function # 0
              /\ ~Truthy(functions[d.function].parameters)
              /\ Truthy(d.call.arguments)) =>
                 /\ ~d.invoked
                 /\ IsFailureOutput(tool_outputs[k].output,
                                    "UnexpectedParametersException")
                 /\ FirstLine(tool_outputs[k].output) = <<"Unexpected parameters">>
    /\ \A j \in 1..Len(PendingCalls) :
          LET fn == PendingCalls[j].function
          IN (/\ j < i
              /\ fn.arguments.doc = "object"
              /\ fn.arguments.members # <<>>) =>
                 \A k \in 1..Len(functions) :
                    (functions[k].name = fn.name /\ ~Truthy(functions[k].parameters)) =>
                        \E n \in 1..Len(dispatches) :
                           /\ dispatches[n].function = k
                           /\ dispatches[n].call.call_id = PendingCalls[j].id

C6_Witness ==
    /\ \E k \in 1..Len(dispatches) :
          /\ dispatches[k].function # 0
          /\ functions[dispatches[k].function] = ListTables
          /\ dispatches[k].call.arguments.t = "dict"
          /\ dispatches[k].call.arguments.keys = {"query"}
    /\ pc = "submit"

\* C7: a retrieved run that is expired makes create_response raise the
\* error "Run expired when calling ..." that names the function of every
\* pending tool call, also when the run carries no required_action.
C7_ExpiredNamesPending ==
    (pc = "raised" /\ run.status = "expired") =>
        /\ error.exc.type = "RuntimeError"
        /\ error.exc.msg # <<>>
        /\ error.exc.msg[1] = "Run expired when calling "
        /\ \A k \in 1..Len(PendingCalls) :
              Occurs(PendingCalls[k].function.name, error.exc.msg)

\* the first message of the run in a list, as create_response returns it
ReturnedFor(messages) ==
    LET mine == {k \in 1..Len(messages) : messages[k].run_id = run.id}
        first == CHOOSE k \in mine : \A j \in mine : k <= j
    IN IF mine = {} THEN <<"\n", "Assistant: No message found">>
       ELSE <<"\n", messages[first].role, ": ">> \o format_message(messages[first]).value

C9_FinishedRunEndsPolling ==
    (rstatus \in FinalStatuses) ~> (pc \in {"returned", "raised"})

\* C10: a retrieved run that is failed makes create_response raise an error
\* whose message holds the remote's last_error; after that no remote call
\* is made and no function is dispatched.
C10_FailedRaises ==
    /\ [](run.status = "failed" =>
             /\ pc = "raised"
             /\ error.origin = "create_response"
             /\ error.exc.type = "RuntimeError"
             /\ run.last_error \in LastErrors
             /\ Occurs(run.last_error.code, error.exc.msg)
             /\ Occurs(run.last_error.message, error.exc.msg))
    /\ [][run.status = "failed" =>
             /\ calls' = calls
             /\ dispatches' = dispatches
             /\ tool_outputs' = tool_outputs
             /\ pc' = pc]_vars

\* a run that fails after one round of tool outputs
C10_Witness ==
    /\ pc = "raised"
    /\ run.status = "failed"
    /\ calls.submit_tool_outputs = 1
    /\ error.exc.msg = <<"Run failed with the following error ",
                         "LastError(code='", "rate_limit_exceeded",
                         "', message='", "Rate limit reached", "')">>

\* the parameters a function declares, in the order of their declaration
DeclaredParameters(f) == IF f.parameters.t = "None" THEN <<>> ELSE f.parameters.items

CitationLine(annotation, index) ==
    IF annotation.kind = "file_citation"
    THEN <<"[" \o IndexStr(index) \o "]", " ">> \o annotation.quote
         \o <<" from ", Filename(annotation.file_id)>>
    ELSE <<"[" \o IndexStr(index) \o "]", " file: ", Filename(annotation.file_id),
           " is downloaded">>

\* the citation lines of the annotations in the order the remote returned
\* them, each after the first preceded by a line break
CitationLines(anns) ==
    LET lines[k \in 0..Len(anns)] ==
           IF k = 0 THEN <<>>
           ELSE lines[k - 1] \o (IF k = 1 THEN <<>> ELSE <<"\n">>)
                \o CitationLine(anns[k], k - 1)
    IN lines[Len(anns)]

\* the text in which every occurrence of the text of each annotation, taken
\* in the order the remote returned them, has given way to its bracketed index
OccurrencesReplaced(text, anns) ==
    LET step[k \in 0..Len(anns)] ==
           IF k = 0 THEN text
           ELSE Replace(step[k - 1], anns[k].text, <<" [" \o IndexStr(k - 1) \o "]">>)
    IN step[Len(anns)]

\* create_response has returned the formatted text of a message of its run
ReturnedMessage == pc = "returned" /\ extracted # <<>>

\* the message is the text "A claim." with one file_citation annotation
\* spanning "A claim."
IsClaimExample(message) ==
    /\ message.content.value = <<"A claim", ".">>
    /\ Len(message.content.annotations) = 1
    /\ message.content.annotations[1].kind = "file_citation"
    /\ message.content.annotations[1].text = <<"A claim", ".">>
    /\ message.content.annotations[1].start_index = 0
    /\ message.content.annotations[1].end_index = 2

\* C12 as stated: the span of each annotation is replaced by its bracketed
\* index, one citation line per annotation follows in the same order, and the
\* text "A claim." with one file_citation annotation spanning "A claim."
\* gives " [0]." followed by the line "[0] source text from doc.txt".
C12_SpanReplacedByIndex ==
    ReturnedMessage =>
       LET message == extracted[1]
           anns == message.content.annotations
       IN /\ result = <<"\n", message.role, ": ">>
                       \o SpanReplaced(message.content.value, anns)
                       \o <<"\n">> \o CitationLines(anns)
          /\ IsClaimExample(message) =>
                result = <<"\n", "assistant", ": ", " [0]", ".", "\n",
                           "[0]", " ", "source text", " from ", "doc.txt">>

\* C12: every occurrence of the text of each annotation is replaced by its
\* bracketed index, the annotations taken in the order the remote returned
\* them, and one citation line per annotation follows in the same order; the
\* text "A claim." with one file_citation annotation whose text is "A claim."
\* gives " [0]" followed by the line "[0] source text from doc.txt".
C12_OccurrencesReplacedByIndex ==
    ReturnedMessage =>
       LET message == extracted[1]
           anns == message.content.annotations
       IN /\ result = <<"\n", message.role, ": ">>
                       \o OccurrencesReplaced(message.content.value, anns)
                       \o <<"\n">> \o CitationLines(anns)
          /\ IsClaimExample(message) =>
                result = <<"\n", "assistant", ": ", " [0]", "\n",
                           "[0]", " ", "source text", " from ", "doc.txt">>

\* a returned message whose annotation text also occurs outside its span
C12_Witness ==
    /\ ReturnedMessage
    /\ extracted[1].content.value =
          <<"The marker ", "[src]", " follows a fact", "[src]">>
    /\ extracted[1].content.annotations[1].start_index = 3
    /\ result = <<"\n", "assistant", ": ", "The marker ", " [0]", " follows a fact",
                  " [0]", "\n", "[0]", " ", "source text", " from ", "doc.txt">>

\* create_response has asked the remote for the run, its messages, or has
\* handed it tool outputs
RunUsed ==
    \/ calls.runs_retrieve > 0
    \/ calls.submit_tool_outputs > 0
    \/ calls.messages_list > 0

\* C13: a call of create_response creates one user message and then one run,
\* both before it fetches a status; it never creates a second message or a
\* second run, whatever the remote reports, and it has created both when it
\* returns or raises.
C13_OneMessageThenOneRun ==
    /\ calls.messages_create <= 1
    /\ calls.runs_create <= 1
    /\ calls.runs_create = 1 => calls.messages_create = 1
    /\ RunUsed => calls.runs_create = 1
    /\ run # NoRun => calls.runs_create = 1
    /\ pc \in {"returned", "raised"} =>
          calls.messages_create = 1 /\ calls.runs_create = 1

\* a call that raised on a run that expired after a round of tool outputs
C13_Witness ==
    /\ pc = "raised"
    /\ run.status = "expired"
    /\ calls.submit_tool_outputs = 1
    /\ calls.messages_create = 1
    /\ calls.runs_create = 1

\* chat has ended: it returned after its deletions, or an exception of
\* create_response left it
ChatEnded == pc \in {"done", "raised"}

\* C14: when chat ends with auto_delete set, in whichever way, the thread it
\* created and the assistant have been deleted on the remote.
C14_DeletedHoweverChatEnds ==
    (ChatEnded /\ auto_delete) =>
       /\ AssistantId \in deleted
       /\ \A k \in 1..Len(threads) : threads[k] \in deleted

====
